---------------------------- MODULE Spec2Model ----------------------------
(***************************************************************************)
(* A model of cercis' line-layout core (src/cercis/lines.py):              *)
(*   - EmptyLineTracker: the blank-line pass over logical lines            *)
(*   - Line: the append / comment-attachment protocol                      *)
(*   - the line-fit predicates                                             *)
(* Each part has its own specification over the module's variables.        *)
(***************************************************************************)
EXTENDS Integers, Sequences, FiniteSets, TLC

VARIABLES
    mode,       \* EmptyLineTracker.mode: [is_pyi, nested_stub_preview]
    fed,        \* the lines handed to maybe_empty_lines so far, as handed
    tracker,    \* the EmptyLineTracker's fields and the blocks it returned
    lmode,      \* the Mode of the Line under construction
    building,   \* how the caller builds the Line: the flags it passes
    line,       \* the Line under construction
    next_id,    \* the identity the next token gets: id(leaf)
    last        \* the last call made on the Line and what it returned

vars == <<mode, fed, tracker, lmode, building, line, next_id, last>>
trackerVars == <<mode, fed, tracker>>
lineVars == <<lmode, building, line, next_id, last>>

(***************************************************************************)
(* Bounds of the model.                                                    *)
(***************************************************************************)
MaxLines == 3
MaxDepth == 2
MaxNewlines == 3
MaxAppends == 4
MaxLeaves == 8

Min(a, b) == IF a <= b THEN a ELSE b
Max(a, b) == IF a >= b THEN a ELSE b

(***************************************************************************)
(* A logical line, as far as the tracker reads it:                         *)
(*   first : what leaves[0] is                                             *)
(*   tail  : what leaves[-1] is ("colon", the last of three dots, other)   *)
(*   depth : len(depth)                                                    *)
(*   nl    : leaves[0].prefix.count("\n")                                  *)
(***************************************************************************)
LineShapes ==
    { <<"AT", "other">>, <<"DEF", "colon">>, <<"DEF", "dots">>,
      <<"CLASS", "colon">>, <<"CLASS", "dots">>, <<"IMPORT", "other">>,
      <<"COMMENT", "other">>, <<"FMT_IMPORT", "other">>,
      <<"STRING3", "other">>, <<"FLOW", "colon">>, <<"OTHER", "colon">>,
      <<"OTHER", "other">> }

MkLine(shape, d, n) ==
    [first |-> shape[1], tail |-> shape[2], depth |-> d, nl |-> n]

NoLine == [first |-> "NONE", tail |-> "NONE", depth |-> 0, nl |-> 0]

is_comment(ln) == ln.first \in {"COMMENT", "FMT_IMPORT"}
is_decorator(ln) == ln.first = "AT"
is_import(ln) == ln.first = "IMPORT"
is_class(ln) == ln.first = "CLASS"
is_stub_class(ln) == is_class(ln) /\ ln.tail = "dots"
is_def(ln) == ln.first = "DEF"
is_triple_quoted_string(ln) == ln.first = "STRING3"
opens_block(ln) == ln.tail = "colon"
is_fmt_pass_converted_import(ln) == ln.first = "FMT_IMPORT"


(***************************************************************************)
(* EmptyLineTracker.  A block is the LinesBlock the tracker returned for   *)
(* one line; previous_block and semantic_leading_comment are positions in  *)
(* the log of returned blocks (0 is None).                                 *)
(***************************************************************************)
Modes == [is_pyi : BOOLEAN, nested_stub_preview : BOOLEAN]

NewTracker ==
    [previous_line |-> NoLine, previous_block |-> 0, previous_defs |-> <<>>,
     semantic_leading_comment |-> 0, blocks |-> <<>>]

\* lines 631-641: the first leaf's newlines, capped
consume_before(m, current_line) ==
    LET max_allowed == IF current_line.depth = 0
                       THEN (IF m.is_pyi THEN 1 ELSE 2)
                       ELSE 1
    IN  Min(current_line.nl, max_allowed)

\* lines 644-680: the value `before` takes when one definition is popped
before_on_pop(m, top, previous_line, current_line, before) ==
    LET depth == current_line.depth IN
    IF m.is_pyi
    THEN IF depth > 0 /\ ~is_def(current_line) /\ is_def(previous_line)
         THEN Min(1, before)
         ELSE IF m.nested_stub_preview /\ is_class(top) /\ ~is_stub_class(top)
         THEN 1
         ELSE IF depth > 0 THEN 0 ELSE 1
    ELSE IF depth > 0
         THEN 1
         ELSE IF top.depth > 0 /\ current_line.tail = "colon"
                 /\ current_line.first # "FLOW"
         THEN 1
         ELSE 2

is_popped_only_if_deeper(top, current_line) ==
    top.depth > current_line.depth

\* line 643: len(self.previous_defs[-1].depth) >= len(depth)
is_popped(top, current_line) ==
    top.depth >= current_line.depth

\* lines 643-681: the while loop over previous_defs
RECURSIVE pop_previous_defs(_, _, _, _, _)
pop_previous_defs(m, defs, previous_line, current_line, before) ==
    IF defs = <<>> \/ ~is_popped(defs[Len(defs)], current_line)
    THEN [before |-> before, previous_defs |-> defs]
    ELSE pop_previous_defs(
             m, SubSeq(defs, 1, Len(defs) - 1), previous_line, current_line,
             before_on_pop(m, defs[Len(defs)], previous_line, current_line,
                           before))

\* lines 727-742: the comment block the blank lines are hoisted onto, or 0;
\* -1 when the line follows a comment and nothing can be hoisted (return 0, 0)
hoist_target(tr, current_line, before) ==
    IF is_comment(tr.previous_line)
       /\ tr.previous_line.depth = current_line.depth
       /\ before = 0
    THEN LET slc == tr.semantic_leading_comment IN
         IF /\ slc # 0
            /\ tr.blocks[slc].previous_block # 0
            /\ ~is_class(tr.blocks[tr.blocks[slc].previous_block].original_line)
            /\ ~opens_block(tr.blocks[tr.blocks[slc].previous_block].original_line)
            /\ tr.blocks[slc].before <= 1
         THEN slc
         ELSE -1
    ELSE 0

\* lines 744-769: the stub-file matrix
stub_newlines(previous_line, current_line, before) ==
    IF is_class(current_line) \/ is_class(previous_line)
    THEN IF previous_line.depth < current_line.depth THEN 0
         ELSE IF previous_line.depth > current_line.depth THEN 1
         ELSE IF is_stub_class(current_line) /\ is_stub_class(previous_line)
         THEN 0
         ELSE 1
    ELSE IF (is_def(current_line) \/ is_decorator(current_line))
            /\ ~is_def(previous_line)
    THEN IF current_line.depth > 0 THEN Min(1, before) ELSE 1
    ELSE IF previous_line.depth > current_line.depth THEN 1
    ELSE 0

plain_newlines_always_one(current_line) == 1

\* line 771
plain_newlines(current_line) == IF current_line.depth > 0 THEN 1 ELSE 2

hoisted_before_not_reduced(comment_before, newlines, previous_after) ==
    Max(comment_before, newlines)

\* lines 772-778: the hoist onto the comment block
hoisted_before(comment_before, newlines, previous_after) ==
    Max(comment_before, newlines) - previous_after

\* lines 705-779; tr.previous_defs is the stack after the pops
_maybe_empty_lines_for_class_or_def(m, tr, current_line, before) ==
    LET defs == IF ~is_decorator(current_line)
                THEN Append(tr.previous_defs, current_line)
                ELSE tr.previous_defs
        ret(b, a, blocks) ==
            [before |-> b, after |-> a, previous_defs |-> defs,
             blocks |-> blocks]
        target == hoist_target(tr, current_line, before)
        newlines == IF m.is_pyi
                    THEN stub_newlines(tr.previous_line, current_line, before)
                    ELSE plain_newlines(current_line)
    IN
    IF tr.previous_line = NoLine THEN ret(0, 0, tr.blocks)
    ELSE IF is_decorator(tr.previous_line)
    THEN IF m.is_pyi /\ is_stub_class(current_line)
         THEN ret(0, 1, tr.blocks)
         ELSE ret(0, 0, tr.blocks)
    ELSE IF tr.previous_line.depth < current_line.depth
            /\ (is_class(tr.previous_line) \/ is_def(tr.previous_line))
    THEN ret(0, 0, tr.blocks)
    ELSE IF target = -1 THEN ret(0, 0, tr.blocks)
    ELSE IF target > 0
    THEN ret(0, 0,
             [tr.blocks EXCEPT ![target].before =
                 hoisted_before(@, newlines,
                     tr.blocks[tr.blocks[target].previous_block].after)])
    ELSE ret(newlines, 0, tr.blocks)

\* lines 630-703; the line's prefix is cleared once its newlines are counted
_maybe_empty_lines(m, tr, current_line) ==
    LET popped == pop_previous_defs(m, tr.previous_defs, tr.previous_line,
                                    current_line,
                                    consume_before(m, current_line))
        before == popped.before
        ret(b, a) == [before |-> b, after |-> a,
                      previous_defs |-> popped.previous_defs,
                      blocks |-> tr.blocks]
    IN
    IF is_decorator(current_line) \/ is_def(current_line)
       \/ is_class(current_line)
    THEN _maybe_empty_lines_for_class_or_def(
             m, [tr EXCEPT !.previous_defs = popped.previous_defs],
             [current_line EXCEPT !.nl = 0], before)
    ELSE IF /\ tr.previous_line # NoLine
            /\ is_import(tr.previous_line)
            /\ ~is_import(current_line)
            /\ ~is_fmt_pass_converted_import(current_line)
            /\ current_line.depth = tr.previous_line.depth
    THEN ret(IF before # 0 THEN before ELSE 1, 0)
    ELSE IF /\ tr.previous_line # NoLine
            /\ is_class(tr.previous_line)
            /\ is_triple_quoted_string(current_line)
    THEN ret(before, 1)
    ELSE IF tr.previous_line # NoLine /\ opens_block(tr.previous_line)
    THEN ret(0, 0)
    ELSE ret(before, 0)

block_before_keeps_after(previous_line, before, previous_after) ==
    IF previous_line = NoLine THEN 0 ELSE before

block_before_from_first_line(previous_line, before, previous_after) ==
    before - previous_after

\* lines 597-604
block_before(previous_line, before, previous_after) ==
    IF previous_line = NoLine THEN 0 ELSE before - previous_after

next_semantic_leading_comment_kept_by_decorators(tr, current_line, before, this_block) ==
    IF is_comment(current_line)
    THEN IF tr.previous_line = NoLine
            \/ (/\ ~is_decorator(tr.previous_line)
                /\ (~is_comment(tr.previous_line) \/ before # 0)
                /\ (tr.semantic_leading_comment = 0 \/ before # 0))
         THEN this_block
         ELSE tr.semantic_leading_comment
    ELSE IF ~is_decorator(current_line)
    THEN 0
    ELSE tr.semantic_leading_comment

\* lines 613-624
next_semantic_leading_comment(tr, current_line, before, this_block) ==
    IF is_comment(current_line)
    THEN IF tr.previous_line = NoLine
            \/ (/\ ~is_decorator(tr.previous_line)
                /\ (~is_comment(tr.previous_line) \/ before # 0)
                /\ (tr.semantic_leading_comment = 0 \/ before # 0))
         THEN this_block
         ELSE tr.semantic_leading_comment
    ELSE IF ~is_decorator(current_line) \/ before # 0
    THEN 0
    ELSE tr.semantic_leading_comment

\* lines 590-628
maybe_empty_lines(m, tr, current_line) ==
    LET r == _maybe_empty_lines(m, tr, current_line)
        previous_after == IF tr.previous_block # 0
                          THEN r.blocks[tr.previous_block].after
                          ELSE 0
        before == block_before(tr.previous_line, r.before, previous_after)
        consumed == [current_line EXCEPT !.nl = 0]
        block == [previous_block |-> tr.previous_block,
                  original_line |-> consumed,
                  before |-> before, after |-> r.after]
        this_block == Len(r.blocks) + 1
    IN  [previous_line |-> consumed,
         previous_block |-> this_block,
         previous_defs |-> r.previous_defs,
         semantic_leading_comment |->
             next_semantic_leading_comment(tr, current_line, before,
                                           this_block),
         blocks |-> Append(r.blocks, block)]

(***************************************************************************)
(* Tokens.  A Leaf is a record; `id` is its identity (Python's id(leaf)),  *)
(* `parent` the type of its parent node ("none": no parent) and            *)
(* `parent_leaves` the number of leaves under that parent, `sibling` what  *)
(* follows an opening square bracket in the tree, `prev_sibling` the       *)
(* number of leaves under its previous sibling (0: no previous sibling).   *)
(***************************************************************************)
OPENING_BRACKETS == {"LPAR", "LSQB", "LBRACE"}
CLOSING_BRACKETS == {"RPAR", "RSQB", "RBRACE"}
BRACKETS == OPENING_BRACKETS \cup CLOSING_BRACKETS

\* the closing type of an opening bracket type
BRACKET(t) ==
    CASE t = "LPAR" -> "RPAR"
      [] t = "LSQB" -> "RSQB"
      [] t = "LBRACE" -> "RBRACE"

Leaf(type, value) ==
    [id |-> 0, type |-> type, value |-> value, prefix |-> "",
     bracket_depth |-> 0, opening_bracket |-> 0,
     parent |-> "none", parent_leaves |-> 0, sibling |-> "none",
     prev_sibling |-> 0]

NoLeaf == Leaf("NONE", "")

IsSpace(c) == c \in {" ", "\t", "\n"}

\* bool(s.strip())
strip_nonempty(s) == \E i \in 1..Len(s) : ~IsSpace(SubSeq(s, i, i))

startswith(s, p) == Len(s) >= Len(p) /\ SubSeq(s, 1, Len(p)) = p

\* cercis.nodes.is_type_comment
is_type_comment(comment, suffix) ==
    /\ comment.type \in {"COMMENT", "STANDALONE_COMMENT"}
    /\ startswith(comment.value, "# type:" \o suffix)

(***************************************************************************)
(* BracketTracker (cercis.brackets): the bracket depth, the open brackets  *)
(* by (depth, closing type), the delimiters with their priorities, and     *)
(* the leaf marked last.                                                   *)
(***************************************************************************)
COMMA_PRIORITY == 18
ARITH_PRIORITY == 5
DOT_PRIORITY == 1

NewBracketTracker ==
    [depth |-> 0, bracket_match |-> {}, delimiters |-> {},
     previous |-> NoLeaf]

any_open_brackets(bt) == bt.bracket_match # {}

\* bracket_match.get((depth, type))
open_bracket(bt, depth, type) ==
    LET found == {b \in bt.bracket_match : b.depth = depth /\ b.type = type}
    IN  IF found = {} THEN 0 ELSE (CHOOSE b \in found : TRUE).id

get_open_lsqb(bt) == open_bracket(bt, bt.depth - 1, "RSQB")

is_split_after_delimiter(leaf) ==
    IF leaf.type = "COMMA" THEN COMMA_PRIORITY ELSE 0

is_split_before_delimiter(leaf, previous) ==
    IF leaf.type = "DOT" /\ leaf.parent # "import_from" THEN DOT_PRIORITY
    ELSE IF leaf.type = "PLUS" THEN ARITH_PRIORITY
    ELSE 0

\* delimiters[key] = max(delimiters.get(key, 0), priority)
set_delimiter(delimiters, key, priority) ==
    LET old == {d \in delimiters : d.id = key}
        prio == IF old = {} THEN priority
                ELSE Max((CHOOSE d \in old : TRUE).priority, priority)
    IN  (delimiters \ old) \cup {[id |-> key, priority |-> prio]}

\* the leaf as mark() leaves it: its depth and its opening bracket
marked_leaf(bt, leaf) ==
    IF leaf.type = "COMMENT" THEN leaf
    ELSE LET depth == IF leaf.type \in CLOSING_BRACKETS
                      THEN bt.depth - 1 ELSE bt.depth
         IN  [leaf EXCEPT
                 !.bracket_depth = depth,
                 !.opening_bracket =
                     IF leaf.type \in CLOSING_BRACKETS
                     THEN open_bracket(bt, depth, leaf.type)
                     ELSE @]

\* BracketTracker.mark: the tracker after it
mark(bt, leaf) ==
    IF leaf.type = "COMMENT" THEN bt
    ELSE
    LET closing == leaf.type \in CLOSING_BRACKETS
        depth == IF closing THEN bt.depth - 1 ELSE bt.depth
        matches == IF closing
                   THEN {b \in bt.bracket_match :
                            ~(b.depth = depth /\ b.type = leaf.type)}
                   ELSE bt.bracket_match
        before == is_split_before_delimiter(leaf, bt.previous)
        after == is_split_after_delimiter(leaf)
        d1 == IF depth = 0 /\ before # 0 /\ bt.previous # NoLeaf
              THEN set_delimiter(bt.delimiters, bt.previous.id, before)
              ELSE bt.delimiters
        d2 == IF depth = 0 /\ after # 0
              THEN set_delimiter(d1, leaf.id, after)
              ELSE d1
    IN  IF leaf.type \in OPENING_BRACKETS
        THEN [depth |-> depth + 1,
              bracket_match |->
                  {b \in matches :
                      ~(b.depth = depth /\ b.type = BRACKET(leaf.type))}
                  \cup {[depth |-> depth, type |-> BRACKET(leaf.type),
                         id |-> leaf.id]},
              delimiters |-> d2,
              previous |-> marked_leaf(bt, leaf)]
        ELSE [depth |-> depth, bracket_match |-> matches,
              delimiters |-> d2, previous |-> marked_leaf(bt, leaf)]

\* mark() raises BracketMatchError on a closing bracket nothing opened
mark_raises(bt, leaf) ==
    /\ leaf.type \in CLOSING_BRACKETS
    /\ open_bracket(bt, bt.depth - 1, leaf.type) = 0

max_delimiter_priority(bt) ==
    CHOOSE p \in {d.priority : d \in bt.delimiters} :
        \A d \in bt.delimiters : d.priority <= p

delimiter_count_with_priority(bt, priority) ==
    Cardinality({d \in bt.delimiters : d.priority = priority})

\* cercis.nodes.whitespace: the prefix a token gets.  The tree around the
\* token is not part of the model: the token's type decides.
whitespace(leaf, complex_subscript) ==
    IF leaf.type \in {"COMMENT", "STANDALONE_COMMENT"} THEN "  "
    ELSE IF leaf.type \in CLOSING_BRACKETS \cup OPENING_BRACKETS
                          \cup {"COMMA", "DOT"}
    THEN ""
    ELSE IF leaf.type = "COLON"
    THEN (IF complex_subscript THEN " " ELSE "")
    ELSE " "

\* cercis.nodes.is_one_sequence_between: at most one comma-separated
\* element between the brackets
is_one_sequence_between(opening_id, closing, leaves, brackets) ==
    LET at == {i \in 1..Len(leaves) : leaves[i].id = opening_id}
        start == CHOOSE i \in at : TRUE
        depth == closing.bracket_depth + 1
        commas == {i \in (start + 1)..Len(leaves) :
                      /\ leaves[i].bracket_depth = depth
                      /\ leaves[i].type = "COMMA"}
    IN  /\ <<leaves[start].type, closing.type>> = brackets
        /\ Cardinality(commas) < 2

(***************************************************************************)
(* Line.  `comments` is the dict of attached comments in insertion order:  *)
(* a sequence of [key, list].  `depth` is the indentation: the characters  *)
(* it renders to, and what it renders to when widths are computed.         *)
(***************************************************************************)
NoIndent == [chars |-> "", width |-> ""]

NewLine(inside) ==
    [depth |-> NoIndent, leaves |-> <<>>, comments |-> <<>>,
     bracket_tracker |-> NewBracketTracker,
     inside_brackets |-> inside, magic_trailing_comma |-> 0]

\* comments.get(key, [])
comments_get(comments, key) ==
    LET at == {i \in 1..Len(comments) : comments[i].key = key}
    IN  IF at = {} THEN <<>> ELSE comments[CHOOSE i \in at : TRUE].list

comments_extend_in_front(comments, key, more) ==
    LET at == {i \in 1..Len(comments) : comments[i].key = key}
    IN  IF at = {}
        THEN <<[key |-> key, list |-> more]>> \o comments
        ELSE [comments EXCEPT ![CHOOSE i \in at : TRUE].list = @ \o more]

\* comments.setdefault(key, []).extend(more)
comments_extend(comments, key, more) ==
    LET at == {i \in 1..Len(comments) : comments[i].key = key}
    IN  IF at = {}
        THEN Append(comments, [key |-> key, list |-> more])
        ELSE [comments EXCEPT ![CHOOSE i \in at : TRUE].list = @ \o more]

\* comments.pop(key, []): the dict without the key
comments_without(comments, key) ==
    SelectSeq(comments, LAMBDA e : e.key # key)

Last(seq) == seq[Len(seq)]
Front(seq) == SubSeq(seq, 1, Len(seq) - 1)

\* lines 536-538
line_bool(ln) == ln.leaves # <<>> \/ ln.comments # <<>>

\* lines 128-131
line_is_comment(ln) ==
    Len(ln.leaves) = 1 /\ ln.leaves[1].type = "STANDALONE_COMMENT"

\* lines 148-155
line_is_class(ln) ==
    /\ line_bool(ln)
    /\ ln.leaves # <<>>
    /\ ln.leaves[1].type = "NAME"
    /\ ln.leaves[1].value = "class"

\* cercis.nodes.is_import on the first leaf, lines 138-141
line_is_import(ln) ==
    /\ line_bool(ln)
    /\ ln.leaves # <<>>
    /\ ln.leaves[1].type = "NAME"
    /\ ln.leaves[1].value \in {"import", "from"}

\* lines 183-197
is_class_paren_empty(ln) ==
    /\ line_bool(ln)
    /\ Len(ln.leaves) = 4
    /\ line_is_class(ln)
    /\ ln.leaves[3].type = "LPAR" /\ ln.leaves[3].value = "("
    /\ ln.leaves[4].type = "RPAR" /\ ln.leaves[4].value = ")"

\* lines 466-482
is_complex_subscript(ln, leaf) ==
    LET open_lsqb == get_open_lsqb(ln.bracket_tracker)
        at == {i \in 1..Len(ln.leaves) : ln.leaves[i].id = open_lsqb}
    IN  /\ open_lsqb # 0
        /\ at # {}
        /\ ln.leaves[CHOOSE i \in at : TRUE].sibling = "test"

has_magic_trailing_comma_by_count(ln, closing, ensure_removable) ==
    /\ closing.type \in CLOSING_BRACKETS
    /\ ln.leaves # <<>>
    /\ Last(ln.leaves).type = "COMMA"
    /\ closing.opening_bracket # 0
    /\ ~is_one_sequence_between(
           closing.opening_bracket, closing, ln.leaves,
           <<CHOOSE o \in OPENING_BRACKETS : BRACKET(o) = closing.type,
             closing.type>>)

\* lines 355-415
has_magic_trailing_comma(ln, closing, ensure_removable) ==
    IF ~(/\ closing.type \in CLOSING_BRACKETS
         /\ ln.leaves # <<>>
         /\ Last(ln.leaves).type = "COMMA")
    THEN FALSE
    ELSE IF closing.type = "RBRACE" THEN TRUE
    ELSE IF closing.type = "RSQB"
    THEN IF /\ closing.parent = "trailer"
            /\ closing.opening_bracket # 0
            /\ is_one_sequence_between(closing.opening_bracket, closing,
                                       ln.leaves, <<"LSQB", "RSQB">>)
         THEN FALSE
         ELSE IF ~ensure_removable THEN TRUE
         ELSE IF Last(ln.leaves).parent = "none" THEN FALSE
         ELSE \/ Last(ln.leaves).parent # "subscriptlist"
              \/ closing.opening_bracket = 0
              \/ ~is_one_sequence_between(closing.opening_bracket, closing,
                                          ln.leaves, <<"LSQB", "RSQB">>)
    ELSE IF line_is_import(ln) THEN TRUE
    ELSE /\ closing.opening_bracket # 0
         /\ ~is_one_sequence_between(closing.opening_bracket, closing,
                                     ln.leaves, <<"LPAR", "RPAR">>)

remove_trailing_comma_with_its_comments(ln) ==
    [ln EXCEPT !.leaves = Front(ln.leaves),
               !.comments = comments_without(ln.comments, Last(ln.leaves).id)]

\* lines 458-464
remove_trailing_comma(ln) ==
    LET trailing_comma == Last(ln.leaves)
        trailing_comma_comments == comments_get(ln.comments,
                                                trailing_comma.id)
        leaves == Front(ln.leaves)
    IN  [ln EXCEPT
            !.leaves = leaves,
            !.comments = comments_extend(
                comments_without(ln.comments, trailing_comma.id),
                Last(leaves).id, trailing_comma_comments)]

\* line 435-441: the comment goes to the token before the last leaf
wraps_single_leaf(last_leaf, comment) ==
    /\ last_leaf.type = "RPAR"
    /\ last_leaf.value = ""
    /\ last_leaf.parent # "none"
    /\ last_leaf.parent_leaves <= 3
    /\ ~is_type_comment(comment, "")

too_short_counts_paren_out(leaves) == Len(leaves) - 1 < 2

\* line 445: the line is too short for the comment to move back
too_short_to_redirect(leaves) == Len(leaves) < 2

standalone_keeps_type(comment) == [comment EXCEPT !.prefix = ""]

\* lines 430-431 and 446-447
standalone(comment) ==
    [comment EXCEPT !.type = "STANDALONE_COMMENT", !.prefix = ""]

prefix_kept(comment) == comment

\* line 423
prefix_cleared(comment) == [comment EXCEPT !.prefix = ""]

\* lines 417-452: [attached, comment as the call leaves it, line]
append_comment(ln, comment) ==
    LET ret(a, c, l) == [attached |-> a, comment |-> c, line |-> l] IN
    IF comment.type = "STANDALONE_COMMENT"
       /\ any_open_brackets(ln.bracket_tracker)
    THEN ret(FALSE, prefix_cleared(comment), ln)
    ELSE IF comment.type # "COMMENT" THEN ret(FALSE, comment, ln)
    ELSE IF ln.leaves = <<>> THEN ret(FALSE, standalone(comment), ln)
    ELSE IF wraps_single_leaf(Last(ln.leaves), comment)
    THEN IF too_short_to_redirect(ln.leaves)
         THEN ret(FALSE, standalone(comment), ln)
         ELSE ret(TRUE, comment,
                  [ln EXCEPT !.comments =
                      comments_extend(@, ln.leaves[Len(ln.leaves) - 1].id,
                                      <<comment>>)])
    ELSE ret(TRUE, comment,
             [ln EXCEPT !.comments =
                 comments_extend(@, Last(ln.leaves).id, <<comment>>)])

has_value_unstripped(leaf) == leaf.type \in BRACKETS \/ leaf.value # ""

\* line 84
has_value(leaf) == leaf.type \in BRACKETS \/ strip_nonempty(leaf.value)

\* line 96
is_marked(ln, preformatted, track_bracket) ==
    ln.inside_brackets \/ ~preformatted \/ track_bracket

\* lines 98-102: the line after the trailing comma is looked at
note_magic_trailing_comma(lm, ln, leaf) ==
    IF lm.magic_trailing_comma
    THEN IF has_magic_trailing_comma(ln, leaf, FALSE)
         THEN [ln EXCEPT !.magic_trailing_comma = leaf.id]
         ELSE ln
    ELSE IF has_magic_trailing_comma(ln, leaf, TRUE)
         THEN remove_trailing_comma(ln)
         ELSE ln

\* lines 72-104
append(lm, ln, leaf, preformatted, track_bracket) ==
    IF ~has_value(leaf) THEN ln
    ELSE
    LET l1 == IF leaf.type = "COLON" /\ is_class_paren_empty(ln)
              THEN [ln EXCEPT !.leaves = SubSeq(@, 1, Len(@) - 2)]
              ELSE ln
        leaf1 == IF l1.leaves # <<>> /\ ~preformatted
                 THEN [leaf EXCEPT !.prefix =
                          @ \o whitespace(leaf, is_complex_subscript(l1, leaf))]
                 ELSE leaf
        tracked == is_marked(l1, preformatted, track_bracket)
        leaf2 == IF tracked THEN marked_leaf(l1.bracket_tracker, leaf1)
                 ELSE leaf1
        l2 == IF tracked
              THEN note_magic_trailing_comma(
                       lm,
                       [l1 EXCEPT !.bracket_tracker = mark(@, leaf1)],
                       leaf2)
              ELSE l1
        r == append_comment(l2, leaf2)
    IN  IF r.attached THEN r.line
        ELSE [r.line EXCEPT !.leaves = Append(@, r.comment)]

append_safe_raises_at_any_depth(ln, leaf) ==
    \/ line_is_comment(ln)
    \/ ln.leaves # <<>> /\ leaf.type = "STANDALONE_COMMENT"

\* lines 112-119: the call is refused
append_safe_raises(ln, leaf) ==
    /\ ln.bracket_tracker.depth = 0
    /\ \/ line_is_comment(ln)
       \/ ln.leaves # <<>> /\ leaf.type = "STANDALONE_COMMENT"

\* lines 106-121
append_safe(lm, ln, leaf, preformatted) ==
    IF append_safe_raises(ln, leaf)
    THEN [raised |-> TRUE, line |-> ln]
    ELSE [raised |-> FALSE, line |-> append(lm, ln, leaf, preformatted, FALSE)]


(***************************************************************************)
(* Building a Line: the tokens a caller appends.                           *)
(***************************************************************************)
\* a call: the operation, the token or the arguments it was given, whether
\* it raised and what it returned
Call(op, leaf, raised, arg, result) ==
    [op |-> op, leaf |-> leaf, raised |-> raised, arg |-> arg,
     result |-> result]

NoCall == Call("none", NoLeaf, FALSE, "none", FALSE)

\* the parts of the state that rest while another part runs
LineIdle ==
    /\ lmode = [magic_trailing_comma |-> TRUE]
    /\ building = [preformatted |-> FALSE, track_bracket |-> FALSE]
    /\ line = NewLine(FALSE)
    /\ next_id = 1
    /\ last = NoCall

TrackerIdle ==
    /\ mode = [is_pyi |-> FALSE, nested_stub_preview |-> FALSE]
    /\ fed = <<>>
    /\ tracker = NewTracker

InvisibleRpar(n) ==
    [Leaf("RPAR", "") EXCEPT !.parent = "atom", !.parent_leaves = n]

LineTokens ==
    { Leaf("NAME", "x"),
      Leaf("LPAR", "("), Leaf("RPAR", ")"),
      Leaf("LPAR", ""), InvisibleRpar(3), InvisibleRpar(5),
      Leaf("COMMENT", "# c"), Leaf("COMMENT", "# type: int"),
      [Leaf("STANDALONE_COMMENT", "# s") EXCEPT !.prefix = "\n"],
      Leaf("NEWLINE", "\n"), Leaf("DEDENT", "") }

BuildingFlags ==
    { [preformatted |-> FALSE, track_bracket |-> FALSE],
      [preformatted |-> TRUE, track_bracket |-> FALSE],
      [preformatted |-> TRUE, track_bracket |-> TRUE] }

\* a caller closes only a bracket the line's tracker saw opening
can_mark(ln, leaf, preformatted, track_bracket) ==
    (has_value(leaf) /\ is_marked(ln, preformatted, track_bracket))
        => ~mark_raises(ln.bracket_tracker, leaf)

InitLine ==
    /\ lmode = [magic_trailing_comma |-> TRUE]
    /\ building \in BuildingFlags
    /\ line \in {NewLine(FALSE), NewLine(TRUE)}
    /\ next_id = 1
    /\ last = NoCall
    /\ TrackerIdle

AppendLeaf(tokens) ==
    /\ next_id <= MaxAppends
    /\ \E tok \in tokens :
          LET leaf == [tok EXCEPT !.id = next_id] IN
          /\ can_mark(line, leaf, building.preformatted,
                      building.track_bracket)
          /\ line' = append(lmode, line, leaf, building.preformatted,
                            building.track_bracket)
          /\ last' = Call("append", leaf, FALSE, "none", FALSE)
    /\ next_id' = next_id + 1
    /\ UNCHANGED <<lmode, building, trackerVars>>

AppendSafeLeaf(tokens) ==
    /\ next_id <= MaxAppends
    /\ \E tok \in tokens :
          LET leaf == [tok EXCEPT !.id = next_id]
              r == append_safe(lmode, line, leaf, building.preformatted)
          IN
          /\ append_safe_raises(line, leaf)
                \/ can_mark(line, leaf, building.preformatted, FALSE)
          /\ line' = r.line
          /\ last' = Call("append_safe", leaf, r.raised, "none", FALSE)
    /\ next_id' = next_id + 1
    /\ UNCHANGED <<lmode, building, trackerVars>>

NextLine == AppendLeaf(LineTokens) \/ AppendSafeLeaf(LineTokens)

SpecLine == InitLine /\ [][NextLine]_vars

(***************************************************************************)
(* Building a Line from the tokens of an expression, in source order, the  *)
(* way the line generator does: append(leaf) with the default flags.       *)
(***************************************************************************)
Operand == {"NAME", "STRING"}

\* the token orders a parsed statement has
CanFollow(leaves, tok) ==
    IF leaves = <<>>
    THEN tok.type \in Operand \cup OPENING_BRACKETS
    ELSE LET p == Last(leaves).type IN
         IF tok.type \in {"COMMENT", "STANDALONE_COMMENT"} THEN TRUE
         ELSE IF tok.type = "NAME" /\ tok.value \in {"from", "import"}
         THEN FALSE
         ELSE IF tok.type \in Operand
         THEN \/ p \in OPENING_BRACKETS \cup {"COMMA", "PLUS"}
              \/ p = "DOT" /\ tok.type = "NAME"
              \/ Len(leaves) = 1 /\ leaves[1].value \in {"from", "import"}
         ELSE IF tok.type \in {"DOT", "COMMA", "PLUS"}
         THEN p \in Operand \cup CLOSING_BRACKETS
         ELSE IF tok.type \in OPENING_BRACKETS
         THEN p \in OPENING_BRACKETS \cup CLOSING_BRACKETS
                    \cup {"COMMA", "PLUS", "NAME"}
         ELSE IF tok.type \in CLOSING_BRACKETS
         THEN p \in Operand \cup CLOSING_BRACKETS \cup OPENING_BRACKETS
                    \cup {"COMMA"}
         ELSE FALSE

BuildLeaf(tokens, bound) ==
    /\ next_id <= bound
    /\ \E tok \in tokens :
          LET leaf == [tok EXCEPT !.id = next_id] IN
          /\ CanFollow(line.leaves, tok)
          /\ can_mark(line, leaf, building.preformatted,
                      building.track_bracket)
          /\ line' = append(lmode, line, leaf, building.preformatted,
                            building.track_bracket)
          /\ last' = Call("append", leaf, FALSE, "none", FALSE)
    /\ next_id' = next_id + 1
    /\ UNCHANGED <<lmode, building, trackerVars>>

InitBuild ==
    /\ building = [preformatted |-> FALSE, track_bracket |-> FALSE]
    /\ next_id = 1
    /\ last = NoCall
    /\ TrackerIdle

(***************************************************************************)
(* Lines with trailing commas before closing brackets.                     *)
(***************************************************************************)
Child(type, value, parent) == [Leaf(type, value) EXCEPT !.parent = parent]

MagicTokens ==
    { Leaf("NAME", "x"), Child("NAME", "from", "import_from"),
      Child("COMMA", ",", "subscriptlist"), Child("COMMA", ",", "exprlist"),
      Leaf("LPAR", "("), Leaf("RPAR", ")"),
      Leaf("LSQB", "["), Child("RSQB", "]", "trailer"),
      Child("RSQB", "]", "atom"),
      Leaf("LBRACE", "{"), Leaf("RBRACE", "}") }

InitMagic ==
    /\ lmode \in [magic_trailing_comma : BOOLEAN]
    /\ line = NewLine(FALSE)
    /\ InitBuild

NextMagic == BuildLeaf(MagicTokens, MaxLeaves)

SpecMagic == InitMagic /\ [][NextMagic]_vars

(***************************************************************************)
(* Rendering a line: str(leaf), str(line), line_to_string.                 *)
(***************************************************************************)
HasNewline(s) == \E i \in 1..Len(s) : SubSeq(s, i, i) = "\n"

\* s.strip("\n")
strip_newlines(s) ==
    LET keep == {i \in 1..Len(s) : SubSeq(s, i, i) # "\n"}
    IN  IF keep = {} THEN ""
        ELSE SubSeq(s, CHOOSE i \in keep : \A j \in keep : i <= j,
                       CHOOSE i \in keep : \A j \in keep : j <= i)

\* sub in s
contains(s, sub) ==
    \E i \in 1..(Len(s) - Len(sub) + 1) :
        SubSeq(s, i, i + Len(sub) - 1) = sub

\* str(leaf)
str_leaf(leaf) == leaf.prefix \o leaf.value

RECURSIVE str_leaves(_)
str_leaves(leaves) ==
    IF leaves = <<>> THEN ""
    ELSE str_leaf(Head(leaves)) \o str_leaves(Tail(leaves))

\* itertools.chain.from_iterable(self.comments.values())
RECURSIVE comments_chain(_)
comments_chain(comments) ==
    IF comments = <<>> THEN <<>>
    ELSE Head(comments).list \o comments_chain(Tail(comments))

\* cercis.indent: what the indentation renders to
render_indent_chars(ln, for_width_calculation) ==
    IF for_width_calculation THEN ln.depth.width ELSE ln.depth.chars

calc_total_indent_width(ln) == Len(ln.depth.width)

\* lines 521-534
_str_inner(ln, for_width_calculation) ==
    IF ~line_bool(ln) THEN "\n"
    ELSE LET indent == render_indent_chars(ln, for_width_calculation)
             first == Head(ln.leaves)
         IN  first.prefix \o indent \o first.value
                 \o str_leaves(Tail(ln.leaves))
                 \o str_leaves(comments_chain(ln.comments))
                 \o "\n"

\* lines 1076-1081
line_to_string(ln) == strip_newlines(_str_inner(ln, FALSE))

\* cercis.strings.str_width: the display width; every character of the
\* model is one column wide
str_width(s) == Len(s)

\* cercis.nodes.is_multiline_string
is_multiline_string(leaf) ==
    /\ leaf.type = "STRING"
    /\ startswith(leaf.value, "'''")
    /\ HasNewline(leaf.value)

\* lines 235-241, with the default depth_limit
contains_standalone_comments(ln) ==
    \E i \in 1..Len(ln.leaves) : ln.leaves[i].type = "STANDALONE_COMMENT"

(***************************************************************************)
(* Pragma comments.                                                        *)
(***************************************************************************)
RECURSIVE lstrip_spaces(_)
lstrip_spaces(s) ==
    IF s # "" /\ SubSeq(s, 1, 1) = " " THEN lstrip_spaces(SubSeq(s, 2, Len(s)))
    ELSE s

\* line 49: "# pylint:", "# pytype:", "# noqa:" or "# type:" before
\* " *ignore" starts at position h of s
pragma_marker_at(s, h) ==
    LET rest == SubSeq(s, h, Len(s)) IN
    \/ \E kw \in {"pylint", "pytype", "noqa"} :
          startswith(rest, "# " \o kw \o ":")
    \/ /\ startswith(rest, "# type:")
       /\ startswith(lstrip_spaces(SubSeq(rest, 8, Len(rest))), "ignore")

\* line 49: where the leftmost match of _PRAGMA_REGEX starts, the spaces
\* before the marker included (0: no match)
pragma_match_start(s) ==
    LET at == {h \in 1..Len(s) : pragma_marker_at(s, h)}
    IN  IF at = {} THEN 0
        ELSE LET h == CHOOSE i \in at : \A j \in at : i <= j
                 from == {p \in 1..h :
                             \A q \in p..(h - 1) : SubSeq(s, q, q) = " "}
             IN  CHOOSE p \in from : \A q \in from : p <= q

pragma_part_after_marker(comment) ==
    LET comment_str == str_leaf(comment)
        start == pragma_match_start(comment_str)
        rest == lstrip_spaces(SubSeq(comment_str, start, Len(comment_str)))
        colon == CHOOSE i \in 1..Len(rest) :
                    /\ SubSeq(rest, i, i) = ":"
                    /\ \A j \in 1..(i - 1) : SubSeq(rest, j, j) # ":"
    IN  IF start = 0 THEN 0 ELSE Len(rest) - colon

\* lines 345-348: len(parts[1]) + len(parts[2]) of the split at the match
pragma_part(comment) ==
    LET comment_str == str_leaf(comment)
        start == pragma_match_start(comment_str)
    IN  IF start = 0 THEN 0 ELSE Len(comment_str) - start + 1

RECURSIVE pragma_sum(_)
pragma_sum(comments) ==
    IF comments = <<>> THEN 0
    ELSE pragma_part(Head(comments)) + pragma_sum(Tail(comments))

\* lines 332-350
trailing_pragma_comment_length(ln) ==
    IF ln.leaves = <<>> THEN 0
    ELSE pragma_sum(comments_get(ln.comments, Last(ln.leaves).id))

(***************************************************************************)
(* contains_uncollapsable_type_comments.                                   *)
(***************************************************************************)
\* self.comments.items(), comment by comment: [key, comment]
RECURSIVE comments_items(_)
comments_items(comments) ==
    IF comments = <<>> THEN <<>>
    ELSE [j \in 1..Len(Head(comments).list) |->
             [key |-> Head(comments).key, comment |-> Head(comments).list[j]]]
         \o comments_items(Tail(comments))

\* lines 258-262: a trailing comma or an invisible closing paren
trailing_comma_or_invisible_paren(leaf) ==
    leaf.type = "COMMA" \/ (leaf.type = "RPAR" /\ leaf.value = "")

\* lines 255-268: leaves[-1] or leaves[-2] raises IndexError
no_leaf_to_ignore(ln) ==
    \/ ln.leaves = <<>>
    \/ Len(ln.leaves) = 1 /\ trailing_comma_or_invisible_paren(Last(ln.leaves))

\* lines 254-266
ignored_ids(ln) ==
    IF trailing_comma_or_invisible_paren(Last(ln.leaves))
    THEN {Last(ln.leaves).id, ln.leaves[Len(ln.leaves) - 1].id}
    ELSE {Last(ln.leaves).id}

uncollapsable_unless_ignore_at_end(comment, leaf_id, ignored, comment_seen) ==
    \/ comment_seen
    \/ ~is_type_comment(comment, " ignore")
    \/ leaf_id \notin ignored

\* lines 279-282
uncollapsable(comment, leaf_id, ignored, comment_seen) ==
    \/ comment_seen
    \/ /\ ~is_type_comment(comment, " ignore")
       /\ leaf_id \notin ignored

\* lines 275-285
RECURSIVE uncollapsable_walk(_, _, _, _)
uncollapsable_walk(items, k, ignored, comment_seen) ==
    IF k > Len(items) THEN FALSE
    ELSE IF /\ is_type_comment(items[k].comment, "")
            /\ uncollapsable(items[k].comment, items[k].key, ignored,
                             comment_seen)
    THEN TRUE
    ELSE uncollapsable_walk(items, k + 1, ignored, TRUE)

\* lines 243-287
contains_uncollapsable_type_comments(lm, ln) ==
    IF ~lm.wrap_pragma_comments THEN FALSE
    ELSE IF no_leaf_to_ignore(ln) THEN FALSE
    ELSE uncollapsable_walk(comments_items(ln.comments), 1, ignored_ids(ln),
                            FALSE)

(***************************************************************************)
(* is_line_short_enough.                                                   *)
(***************************************************************************)
\* line 829
width(m, s) == IF m.preview THEN str_width(s) ELSE Len(s)

\* line_str.split("\n"): the first and the last part
first_part(s) ==
    LET nl == {i \in 1..Len(s) : SubSeq(s, i, i) = "\n"}
    IN  SubSeq(s, 1, (CHOOSE i \in nl : \A j \in nl : i <= j) - 1)

last_part(s) ==
    LET nl == {i \in 1..Len(s) : SubSeq(s, i, i) = "\n"}
    IN  SubSeq(s, (CHOOSE i \in nl : \A j \in nl : j <= i) + 1, Len(s))

\* lines 893-894: leaf.prev_sibling in ignore_ctxs, for the leaf at i.  The
\* contexts are the multiline string and the nodes around it that the line
\* holds whole.
in_ignore_ctxs(ln, i, multiline_string, has_contexts) ==
    LET n == ln.leaves[i].prev_sibling IN
    \/ n = 0
    \/ /\ has_contexts
       /\ i - n >= 1
       /\ multiline_string \in (i - n)..(i - 1)

\* lines 873-911: the walk over the leaves.  `commas` counts the commas
\* per depth, `multiline_string` is the index of the multiline string (0:
\* none so far), `max_level` the depth it was found at (-1: math.inf).
RECURSIVE multiline_string_walk(_, _, _, _, _, _, _)
multiline_string_walk(ln, line_str, i, commas, multiline_string, has_contexts, max_level) ==
    IF i > Len(ln.leaves)
    THEN (~has_contexts) \/ (\A k \in 1..Len(commas) : commas[k] = 0)
    ELSE
    LET leaf == ln.leaves[i]
        tracking == max_level = -1
        grow == tracking /\ leaf.bracket_depth + 1 > Len(commas)
        pop == tracking /\ ~grow /\ leaf.bracket_depth + 1 < Len(commas)
        had_comma == IF pop THEN Last(commas) ELSE -1
        commas1 == IF grow THEN Append(commas, 0)
                   ELSE IF pop THEN Front(commas) ELSE commas
        left == /\ pop
                /\ multiline_string # 0
                /\ ln.leaves[multiline_string].bracket_depth
                       = leaf.bracket_depth + 1
        level1 == IF left THEN leaf.bracket_depth ELSE max_level
        counted == /\ (level1 = -1 \/ leaf.bracket_depth <= level1)
                   /\ leaf.type = "COMMA"
                   /\ ~(/\ in_ignore_ctxs(ln, i, multiline_string,
                                          has_contexts)
                        /\ i = Len(ln.leaves))
        commas2 == IF counted
                   THEN [commas1 EXCEPT ![leaf.bracket_depth + 1] = @ + 1]
                   ELSE commas1
        level2 == IF level1 # -1 THEN Min(level1, leaf.bracket_depth)
                  ELSE level1
    IN  IF left /\ had_comma > 0 THEN FALSE
        ELSE IF is_multiline_string(leaf)
        THEN IF has_contexts THEN FALSE
             ELSE multiline_string_walk(ln, line_str, i + 1, commas2, i,
                                        contains(line_str, str_leaf(leaf)),
                                        level2)
        ELSE multiline_string_walk(ln, line_str, i + 1, commas2,
                                   multiline_string, has_contexts, level2)

\* lines 830-833
effective_length(m, ln, line_str) ==
    IF m.wrap_pragma_comments THEN width(m, line_str)
    ELSE width(m, line_str) - trailing_pragma_comment_length(ln)

\* lines 814-911
is_line_short_enough(ln, m, line_str_given) ==
    LET given == IF line_str_given = "" THEN line_to_string(ln)
                 ELSE line_str_given
        line_str == IF m.use_tabs
                    THEN strip_newlines(_str_inner(ln, TRUE))
                    ELSE given
        length == effective_length(m, ln, line_str)
    IN  IF ~m.multiline_string_handling
        THEN /\ length <= m.line_length
             /\ ~HasNewline(line_str)
             /\ ~contains_standalone_comments(ln)
        ELSE IF contains_standalone_comments(ln) THEN FALSE
        ELSE IF ~HasNewline(line_str) THEN length <= m.line_length
        ELSE IF \/ width(m, first_part(line_str)) > m.line_length
                \/ width(m, last_part(line_str)) > m.line_length
        THEN FALSE
        ELSE multiline_string_walk(ln, line_str, 1, <<>>, 0, FALSE, -1)

(***************************************************************************)
(* can_be_split.                                                           *)
(***************************************************************************)
\* lines 929-945: the walk from the last leaf but one down to the first;
\* `next` stays the last leaf throughout
RECURSIVE can_be_split_walk(_, _, _, _, _)
can_be_split_walk(leaves, i, next, call_count, dot_count) ==
    IF i < 1 THEN TRUE
    ELSE
    LET leaf == leaves[i]
        calls == IF leaf.type \in OPENING_BRACKETS THEN call_count + 1
                 ELSE call_count
        dots == IF leaf.type = "DOT" THEN dot_count + 1 ELSE dot_count
    IN  IF leaf.type \in OPENING_BRACKETS
           /\ next.type \notin CLOSING_BRACKETS
        THEN FALSE
        ELSE IF /\ leaf.type \notin OPENING_BRACKETS
                /\ leaf.type # "DOT"
                /\ leaf.type = "NAME"
                /\ ~(next.type = "DOT" \/ next.type \in OPENING_BRACKETS)
        THEN FALSE
        ELSE IF leaf.type \notin OPENING_BRACKETS \cup CLOSING_BRACKETS
                                  \cup {"DOT", "NAME"}
        THEN FALSE
        ELSE IF dots > 1 /\ calls > 1 THEN FALSE
        ELSE can_be_split_walk(leaves, i - 1, next, calls, dots)

\* lines 914-947
can_be_split(ln) ==
    LET leaves == ln.leaves IN
    IF Len(leaves) < 2 THEN FALSE
    ELSE IF leaves[1].type = "STRING" /\ leaves[2].type = "DOT"
    THEN can_be_split_walk(leaves, Len(leaves) - 1, Last(leaves), 0, 0)
    ELSE TRUE

(***************************************************************************)
(* can_omit_invisible_parens.                                              *)
(***************************************************************************)
RECURSIVE comments_length(_)
comments_length(comments) ==
    IF comments = <<>> THEN 0
    ELSE Len(Head(comments).value) + comments_length(Tail(comments))

\* lines 454-456
comments_after(ln, leaf) == comments_get(ln.comments, leaf.id)

\* lines 484-503: the leaves from position i on, in the direction asked
\* for, up to the first multiline string
RECURSIVE enumerate_from(_, _, _)
enumerate_from(ln, i, reversed) ==
    IF i < 1 \/ i > Len(ln.leaves) THEN <<>>
    ELSE LET leaf == ln.leaves[i] IN
         IF HasNewline(leaf.value) THEN <<>>
         ELSE <<[index |-> i - 1, leaf |-> leaf,
                 length |-> Len(leaf.prefix) + Len(leaf.value)
                              + comments_length(comments_after(ln, leaf))]>>
              \o enumerate_from(ln, IF reversed THEN i - 1 ELSE i + 1,
                                reversed)

enumerate_with_length(ln, reversed) ==
    enumerate_from(ln, IF reversed THEN Len(ln.leaves) ELSE 1, reversed)

\* lines 1039-1049: TRUE when the loop ends without a break
RECURSIVE opening_paren_walk(_, _, _, _, _, _)
opening_paren_walk(items, k, first, line_length, remainder, length) ==
    IF k > Len(items) THEN TRUE
    ELSE LET leaf == items[k].leaf
             rem == \/ remainder
                    \/ /\ leaf.type \in CLOSING_BRACKETS
                       /\ leaf.opening_bracket = first.id
             len == IF rem THEN length + items[k].length ELSE length
         IN  IF rem /\ len > line_length THEN FALSE
             ELSE opening_paren_walk(
                      items, k + 1, first, line_length,
                      rem /\ leaf.type \notin OPENING_BRACKETS, len)

\* lines 1034-1056
_can_omit_opening_paren(ln, first, line_length) ==
    LET items == enumerate_with_length(ln, FALSE)
        _index == IF items = <<>> THEN -1 ELSE Last(items).index
    IN  /\ opening_paren_walk(items, 1, first, line_length, FALSE,
                              calc_total_indent_width(ln))
        /\ Len(ln.leaves) = _index + 1

\* lines 1063-1071
RECURSIVE closing_paren_walk(_, _, _, _, _, _)
closing_paren_walk(items, k, last_leaf, line_length, length, seen_other_brackets) ==
    IF k > Len(items) THEN FALSE
    ELSE LET leaf == items[k].leaf
             len == length + items[k].length
         IN  IF leaf.id = last_leaf.opening_bracket
             THEN IF seen_other_brackets \/ len <= line_length THEN TRUE
                  ELSE closing_paren_walk(items, k + 1, last_leaf,
                                          line_length, len,
                                          seen_other_brackets)
             ELSE closing_paren_walk(
                      items, k + 1, last_leaf, line_length, len,
                      seen_other_brackets
                          \/ leaf.type \in OPENING_BRACKETS)

\* lines 1059-1073
_can_omit_closing_paren(ln, last_leaf, line_length) ==
    closing_paren_walk(enumerate_with_length(ln, FALSE), 1, last_leaf,
                       line_length, calc_total_indent_width(ln), FALSE)

\* cercis.nodes.is_with_or_async_with_stmt, lines 143-146
is_with_or_async_with_stmt(ln) ==
    /\ line_bool(ln)
    /\ ln.leaves # <<>>
    /\ ln.leaves[1].type = "NAME"
    /\ ln.leaves[1].value = "with"

\* line 967
too_many_delimiters_from_three(delimiter_count) == delimiter_count > 2

too_many_delimiters(delimiter_count) == delimiter_count > 1

\* line 986: the assertion fails
stranded_delimiter(lm, rhs) ==
    LET bt == rhs.body.bracket_tracker IN
    /\ bt.delimiters # {}
    /\ LET max_priority == max_delimiter_priority(bt)
           delimiter_count ==
               delimiter_count_with_priority(bt, max_priority)
       IN  /\ ~too_many_delimiters(delimiter_count)
           /\ ~(/\ delimiter_count = 1
                /\ lm.wrap_multiple_context_managers_in_parens
                /\ max_priority = COMMA_PRIORITY
                /\ is_with_or_async_with_stmt(rhs.head))
           /\ max_priority # DOT_PRIORITY
    /\ Len(rhs.body.leaves) < 2

\* lines 1005-1029: the expression ends with a bracket
omit_by_closing_bracket(ln, line_length) ==
    LET first == ln.leaves[1]
        penultimate == ln.leaves[Len(ln.leaves) - 1]
        last_leaf == Last(ln.leaves)
    IN  /\ \/ last_leaf.type = "RPAR"
           \/ last_leaf.type = "RBRACE"
           \/ /\ last_leaf.type = "RSQB"
              /\ last_leaf.parent # "none"
              /\ last_leaf.parent # "trailer"
        /\ penultimate.type \notin OPENING_BRACKETS
        /\ \/ is_multiline_string(first)
           \/ _can_omit_closing_paren(ln, last_leaf, line_length)

\* lines 950-1031
can_omit_invisible_parens(lm, rhs, line_length) ==
    LET ln == rhs.body
        bt == ln.bracket_tracker
    IN
    IF bt.delimiters = {} THEN TRUE
    ELSE
    LET max_priority == max_delimiter_priority(bt)
        delimiter_count == delimiter_count_with_priority(bt, max_priority)
    IN
    IF too_many_delimiters(delimiter_count) THEN FALSE
    ELSE IF /\ delimiter_count = 1
            /\ lm.wrap_multiple_context_managers_in_parens
            /\ max_priority = COMMA_PRIORITY
            /\ is_with_or_async_with_stmt(rhs.head)
    THEN FALSE
    ELSE IF max_priority = DOT_PRIORITY THEN TRUE
    ELSE IF /\ ln.leaves[1].type \in OPENING_BRACKETS
            /\ ln.leaves[2].type \notin CLOSING_BRACKETS
            /\ _can_omit_opening_paren(ln, ln.leaves[1], line_length)
    THEN TRUE
    ELSE omit_by_closing_bracket(ln, line_length)

(***************************************************************************)
(* Lines asked whether they can be split.                                  *)
(***************************************************************************)
DefaultMode == [magic_trailing_comma |-> TRUE]

SplitTokens ==
    { Leaf("NAME", "a"), Leaf("STRING", "'x'"), Leaf("DOT", "."),
      Child("COMMA", ",", "arglist"), Leaf("LPAR", "("), Leaf("RPAR", ")") }

InitSplit ==
    /\ lmode = DefaultMode
    /\ line = NewLine(FALSE)
    /\ InitBuild

AskCanBeSplit ==
    /\ last' = Call("can_be_split", NoLeaf, FALSE, "none",
                    can_be_split(line))
    /\ UNCHANGED <<lmode, building, line, next_id, trackerVars>>

NextSplit == BuildLeaf(SplitTokens, MaxLeaves) \/ AskCanBeSplit

SpecSplit == InitSplit /\ [][NextSplit]_vars

(***************************************************************************)
(* The body of a right hand split, asked whether its invisible             *)
(* parentheses can be omitted.  The body is built the way the split builds *)
(* it: inside brackets, from preformatted leaves.                          *)
(***************************************************************************)
MaxBody == 7

Spaced(leaf) == [leaf EXCEPT !.prefix = " "]

BodyTokens ==
    { Leaf("NAME", "a"), Leaf("STRING", "'''\n'''"),
      Spaced(Leaf("PLUS", "+")), Leaf("COMMA", ","), Leaf("DOT", "."),
      Leaf("LPAR", "("), Leaf("RPAR", ")"),
      Leaf("LSQB", "["), Child("RSQB", "]", "trailer") }

OmitLengths == {2, 5, 88}

Heads ==
    { [NewLine(FALSE) EXCEPT !.leaves = <<Leaf("NAME", v), Leaf("LPAR", "")>>]
          : v \in {"with", "return"} }

FourSpaces == [chars |-> "    ", width |-> "    "]

InitOmit ==
    /\ lmode \in [magic_trailing_comma : {TRUE},
                  wrap_multiple_context_managers_in_parens : BOOLEAN]
    /\ building = [preformatted |-> TRUE, track_bracket |-> FALSE]
    /\ line = [NewLine(TRUE) EXCEPT !.depth = FourSpaces]
    /\ next_id = 1
    /\ last = NoCall
    /\ TrackerIdle

AskCanOmit ==
    /\ \E head \in Heads, line_length \in OmitLengths :
          LET rhs == [head |-> head, body |-> line] IN
          last' = Call("can_omit_invisible_parens", NoLeaf,
                       stranded_delimiter(lmode, rhs),
                       [head |-> head, line_length |-> line_length],
                       IF stranded_delimiter(lmode, rhs) THEN FALSE
                       ELSE can_omit_invisible_parens(lmode, rhs,
                                                      line_length))
    /\ UNCHANGED <<lmode, building, line, next_id, trackerVars>>

NextOmit == BuildLeaf(BodyTokens, MaxBody) \/ AskCanOmit

SpecOmit == InitOmit /\ [][NextOmit]_vars

(***************************************************************************)
(* Lines asked whether they are short enough.                              *)
(***************************************************************************)
MaxFit == 4

LineLengths == {2, 6}

Indents(use_tabs) ==
    { NoIndent,
      IF use_tabs THEN [chars |-> "\t", width |-> "    "] ELSE FourSpaces }

FitTokens ==
    { Leaf("NAME", "ab"), Child("COMMA", ",", "exprlist"),
      [Child("COMMA", ",", "exprlist") EXCEPT !.prev_sibling = 1],
      Leaf("LPAR", ""), InvisibleRpar(3),
      Leaf("STRING", "'''\n'''"),
      Leaf("COMMENT", "# noqa: E501"), Leaf("COMMENT", "# c"),
      Leaf("STANDALONE_COMMENT", "# s") }

InitFit ==
    /\ lmode \in [magic_trailing_comma : {TRUE},
                  use_tabs : BOOLEAN,
                  preview : BOOLEAN,
                  wrap_pragma_comments : BOOLEAN,
                  multiline_string_handling : BOOLEAN,
                  line_length : LineLengths]
    /\ line \in {[NewLine(FALSE) EXCEPT !.depth = d] :
                    d \in Indents(lmode.use_tabs)}
    /\ InitBuild

AskShortEnough ==
    /\ last' = Call("is_line_short_enough", NoLeaf, FALSE, "none",
                    is_line_short_enough(line, lmode, ""))
    /\ UNCHANGED <<lmode, building, line, next_id, trackerVars>>

NextFit == BuildLeaf(FitTokens, MaxFit) \/ AskShortEnough

SpecFit == InitFit /\ [][NextFit]_vars

(***************************************************************************)
(* Lines with type comments and pragma comments, asked about them.         *)
(***************************************************************************)
MaxPragma == 5

PragmaTokens ==
    { Leaf("NAME", "ab"), Child("COMMA", ",", "exprlist"),
      Leaf("LPAR", ""), InvisibleRpar(3),
      Leaf("COMMENT", "# c"), Leaf("COMMENT", "# type: int"),
      Leaf("COMMENT", "# type: ignore"), Leaf("COMMENT", "# noqa: E501"),
      Leaf("COMMENT", "# c # pylint: x") }

InitPragma ==
    /\ lmode \in [magic_trailing_comma : {TRUE},
                  wrap_pragma_comments : BOOLEAN]
    /\ line = NewLine(FALSE)
    /\ InitBuild

\* a line that opens with a trailing comma or an invisible closing paren,
\* handed over with preformatted=True
AppendClosingFirst ==
    /\ line.leaves = <<>>
    /\ next_id <= MaxPragma
    /\ \E tok \in {Child("COMMA", ",", "exprlist"), InvisibleRpar(3)} :
          LET leaf == [tok EXCEPT !.id = next_id] IN
          /\ line' = append(lmode, line, leaf, TRUE, FALSE)
          /\ last' = Call("append", leaf, FALSE, "none", FALSE)
    /\ next_id' = next_id + 1
    /\ UNCHANGED <<lmode, building, trackerVars>>

AskUncollapsable ==
    /\ last' = Call("contains_uncollapsable_type_comments", NoLeaf, FALSE,
                    "none", contains_uncollapsable_type_comments(lmode, line))
    /\ UNCHANGED <<lmode, building, line, next_id, trackerVars>>

AskPragmaLength ==
    /\ last' = Call("trailing_pragma_comment_length", NoLeaf, FALSE, "none",
                    trailing_pragma_comment_length(line))
    /\ UNCHANGED <<lmode, building, line, next_id, trackerVars>>

NextPragma ==
    \/ BuildLeaf(PragmaTokens, MaxPragma)
    \/ AppendClosingFirst
    \/ AskUncollapsable
    \/ AskPragmaLength

SpecPragma == InitPragma /\ [][NextPragma]_vars

(***************************************************************************)
(* Lines with comments on trailing commas and on invisible parens, in      *)
(* both magic-trailing-comma modes.                                        *)
(***************************************************************************)
MaxComma == 6

CommaTokens ==
    { Leaf("NAME", "x"), Child("COMMA", ",", "exprlist"),
      Leaf("LBRACE", "{"), Leaf("RBRACE", "}"),
      Leaf("LPAR", ""), InvisibleRpar(3),
      Leaf("COMMENT", "# c"), Leaf("COMMENT", "# type: int") }

InitComma ==
    /\ lmode \in [magic_trailing_comma : BOOLEAN]
    /\ line = NewLine(FALSE)
    /\ InitBuild

NextComma == BuildLeaf(CommaTokens, MaxComma)

SpecComma == InitComma /\ [][NextComma]_vars

(***************************************************************************)
(* Class headers: "class A():" and its comments, token by token.           *)
(***************************************************************************)
MaxHeader == 7

HeaderTokens ==
    { Leaf("NAME", "class"), Leaf("NAME", "A"),
      Leaf("LPAR", "("), Leaf("RPAR", ")"), Leaf("COLON", ":"),
      Child("COMMA", ",", "arglist"),
      Leaf("COMMENT", "# c"), Leaf("COMMENT", "# type: int") }

\* the token orders of a class header: class A: and class A(A, A):
HeaderCanFollow(ln, tok) ==
    IF tok.type = "COMMENT" THEN ln.leaves # <<>>
    ELSE IF ln.leaves = <<>> THEN tok.value = "class"
    ELSE LET p == Last(ln.leaves)
             inside == ln.bracket_tracker.depth > 0
         IN  IF p.value = "class" THEN tok.value = "A"
             ELSE IF p.type = "NAME"
             THEN IF inside THEN tok.type \in {"COMMA", "RPAR"}
                  ELSE tok.type \in {"LPAR", "COLON"}
             ELSE IF p.type = "LPAR" THEN tok.value = "A" \/ tok.type = "RPAR"
             ELSE IF p.type = "COMMA"
             THEN tok.value = "A" \/ tok.type = "RPAR"
             ELSE IF p.type = "RPAR" THEN tok.type = "COLON"
             ELSE FALSE

InitHeader ==
    /\ lmode \in [magic_trailing_comma : BOOLEAN]
    /\ line = NewLine(FALSE)
    /\ InitBuild

AppendHeaderLeaf ==
    /\ next_id <= MaxHeader
    /\ \E tok \in HeaderTokens :
          LET leaf == [tok EXCEPT !.id = next_id] IN
          /\ HeaderCanFollow(line, tok)
          /\ can_mark(line, leaf, building.preformatted,
                      building.track_bracket)
          /\ line' = append(lmode, line, leaf, building.preformatted,
                            building.track_bracket)
          /\ last' = Call("append", leaf, FALSE, "none", FALSE)
    /\ next_id' = next_id + 1
    /\ UNCHANGED <<lmode, building, trackerVars>>

NextHeader == AppendHeaderLeaf

SpecHeader == InitHeader /\ [][NextHeader]_vars

(***************************************************************************)
(* The lines a formatting run feeds: the first at depth 0, a line after a  *)
(* block opener one level deeper, any other line at most as deep as the    *)
(* line before it.                                                         *)
(***************************************************************************)
DepthsAfter(lines) ==
    IF lines = <<>> THEN {0}
    ELSE LET p == lines[Len(lines)] IN
         IF opens_block(p) THEN {p.depth + 1} \cap (0..MaxDepth)
         ELSE 0..p.depth

InitTracker ==
    /\ mode \in Modes
    /\ fed = <<>>
    /\ tracker = NewTracker
    /\ LineIdle

FeedLine ==
    /\ Len(fed) < MaxLines
    /\ \E shape \in LineShapes, d \in DepthsAfter(fed), n \in 0..MaxNewlines :
          LET current_line == MkLine(shape, d, n) IN
          /\ fed' = Append(fed, current_line)
          /\ tracker' = maybe_empty_lines(mode, tracker, current_line)
    /\ UNCHANGED <<mode, lineVars>>

NextTracker == FeedLine

SpecTracker == InitTracker /\ [][NextTracker]_vars

(***************************************************************************)
(* Longer runs over the lines around a commented definition: classes,      *)
(* docstrings, decorators, comments, defs and plain statements.            *)
(***************************************************************************)
MaxHoistLines == 4

HoistShapes ==
    { <<"CLASS", "colon">>, <<"CLASS", "dots">>, <<"DEF", "colon">>,
      <<"AT", "other">>, <<"COMMENT", "other">>, <<"STRING3", "other">>,
      <<"OTHER", "other">> }

HoistNewlines == {0, 2}

FeedHoistLine ==
    /\ Len(fed) < MaxHoistLines
    /\ \E shape \in HoistShapes, d \in DepthsAfter(fed),
          n \in HoistNewlines :
          LET current_line == MkLine(shape, d, n) IN
          /\ fed' = Append(fed, current_line)
          /\ tracker' = maybe_empty_lines(mode, tracker, current_line)
    /\ UNCHANGED <<mode, lineVars>>

NextHoist == FeedHoistLine

SpecHoist == InitTracker /\ [][NextHoist]_vars


(***************************************************************************)
(* Blank lines in the output.                                              *)
(***************************************************************************)
\* LinesBlock.all_lines, lines 567-571: a block's `before` blank lines
\* follow the `after` ones of the block before it
Emitted(blocks, i) ==
    (IF blocks[i].previous_block # 0
     THEN blocks[blocks[i].previous_block].after
     ELSE 0)
    + Max(blocks[i].before, 0)

RECURSIVE RunTracker(_, _, _)
RunTracker(m, tr, lines) ==
    IF lines = <<>> THEN tr
    ELSE RunTracker(m, maybe_empty_lines(m, tr, Head(lines)), Tail(lines))

\* the lines of the formatted output: each line with the blank lines the
\* first run put before it
Reformatted(lines, blocks) ==
    [i \in 1..Len(lines) |-> [lines[i] EXCEPT !.nl = Emitted(blocks, i)]]

\* C1: formatting is stable.  A fresh tracker (same mode) run over the
\* lines as the first run wrote them out puts the same number of blank
\* lines before every line.
C1_Stable ==
    LET second == RunTracker(mode, NewTracker,
                             Reformatted(fed, tracker.blocks)).blocks
    IN  \A i \in 1..Len(fed) : Emitted(second, i) = Emitted(tracker.blocks, i)

\* a run in which the first pass changed a line's blank lines, so the second
\* pass reads another prefix than the first, and in which a def's blank
\* lines were hoisted onto the comment before it
C1_Witness ==
    /\ Len(fed) = 3
    /\ is_comment(fed[2]) /\ is_def(fed[3]) /\ fed[3].nl = 0
    /\ tracker.blocks[2].before = 2
    /\ fed[2].nl = 0
    /\ tracker.blocks[3].before = 0

\* C5: a def at depth 0 right after a def at depth 0 is separated from it
\* by exactly 2 blank lines in a source file and by none in a stub file,
\* whatever the second def's prefix held.
C5_DefAfterDef ==
    \A i \in 2..Len(fed) :
        (is_def(fed[i - 1]) /\ fed[i - 1].depth = 0
         /\ is_def(fed[i]) /\ fed[i].depth = 0)
        => /\ tracker.blocks[i].previous_block = i - 1
           /\ tracker.blocks[i - 1].after + tracker.blocks[i].before
                = (IF mode.is_pyi THEN 0 ELSE 2)
           /\ Emitted(tracker.blocks, i) = (IF mode.is_pyi THEN 0 ELSE 2)

C5_Witness ==
    /\ Len(fed) >= 2
    /\ ~mode.is_pyi
    /\ is_def(fed[1]) /\ is_def(fed[2]) /\ fed[2].depth = 0
    /\ fed[2].nl = 0
    /\ tracker.blocks[2].before = 2


(***************************************************************************)
(* Line.append, append_safe and append_comment.                            *)
(***************************************************************************)
\* the call just made went through Line.append
Appended(call) ==
    call.op = "append" \/ (call.op = "append_safe" /\ ~call.raised)

AttachedIds(comments) ==
    UNION { {comments[i].list[j].id : j \in 1..Len(comments[i].list)} :
            i \in 1..Len(comments) }

\* C2: a token that is no bracket and whose text is empty or only
\* whitespace never becomes a leaf, and appending it changes nothing of the
\* line: leaves, comments, bracket tracker and magic_trailing_comma.
C2_NoValueNoOp ==
    /\ [](\A i \in 1..Len(line.leaves) :
             line.leaves[i].type \in BRACKETS
             \/ strip_nonempty(line.leaves[i].value))
    /\ [][(Appended(last')
           /\ last'.leaf.type \notin BRACKETS
           /\ ~strip_nonempty(last'.leaf.value))
          => line' = line]_vars

C2_Witness ==
    /\ last.op = "append"
    /\ last.leaf.type = "NEWLINE"
    /\ Len(line.leaves) >= 2
    /\ line.comments # <<>>

\* C3 as claimed: no leaf is a comment, and a standalone-comment leaf is
\* the only leaf of its line.
C3_Original ==
    /\ \A i \in 1..Len(line.leaves) : line.leaves[i].type # "COMMENT"
    /\ (\E i \in 1..Len(line.leaves) :
            line.leaves[i].type = "STANDALONE_COMMENT")
       => Len(line.leaves) = 1

\* C3 as amended: no leaf has type comment and only comments are attached;
\* a comment given to append is afterwards either filed in the comment map
\* or the last leaf, as a standalone comment.  Other leaves may share the
\* line with a standalone comment.
C3_CommentsSetAside ==
    /\ [](/\ \A i \in 1..Len(line.leaves) : line.leaves[i].type # "COMMENT"
          /\ \A i \in 1..Len(line.comments) :
                \A j \in 1..Len(line.comments[i].list) :
                    line.comments[i].list[j].type = "COMMENT")
    /\ [][(Appended(last')
           /\ last'.leaf.type \in {"COMMENT", "STANDALONE_COMMENT"})
          => \/ /\ last'.leaf.id \in AttachedIds(line'.comments)
                /\ line'.leaves = line.leaves
             \/ /\ line'.leaves # <<>>
                /\ Last(line'.leaves).id = last'.leaf.id
                /\ Last(line'.leaves).type = "STANDALONE_COMMENT"
                /\ line'.comments = line.comments]_vars

\* a comment turned into a standalone comment sits after another leaf, on a
\* line that also has an attached comment
C3_Witness ==
    /\ Len(line.leaves) >= 2
    /\ Last(line.leaves).type = "STANDALONE_COMMENT"
    /\ Last(line.leaves).value = "# c"
    /\ line.comments # <<>>

MeetsInvisibleParen(ln, call) ==
    /\ Appended(call)
    /\ call.leaf.type = "COMMENT"
    /\ ~startswith(call.leaf.value, "# type:")
    /\ ln.leaves # <<>>
    /\ Last(ln.leaves).type = "RPAR"
    /\ Last(ln.leaves).value = ""
    /\ Last(ln.leaves).parent # "none"
    /\ Last(ln.leaves).parent_leaves <= 3

\* the comment is filed under the token before the paren, not the paren
FiledBeforeParen(ln, ln2, call) ==
    LET paren == Last(ln.leaves)
        target == ln.leaves[Len(ln.leaves) - 1]
        filed == comments_get(ln2.comments, target.id)
    IN  /\ ln2.leaves = ln.leaves
        /\ filed # <<>>
        /\ Last(filed).id = call.leaf.id
        /\ Last(filed).type = "COMMENT"
        /\ comments_get(ln2.comments, paren.id)
              = comments_get(ln.comments, paren.id)

\* the comment is not attached: it is a leaf, a standalone comment
MadeStandalone(ln, ln2, call) ==
    /\ ln2.comments = ln.comments
    /\ Len(ln2.leaves) = Len(ln.leaves) + 1
    /\ Last(ln2.leaves).id = call.leaf.id
    /\ Last(ln2.leaves).type = "STANDALONE_COMMENT"
    /\ Last(ln2.leaves).prefix = ""

\* C10 as claimed: standalone when fewer than two tokens precede the paren
C10_Original ==
    [][MeetsInvisibleParen(line, last')
       => IF Len(line.leaves) - 1 < 2
          THEN MadeStandalone(line, line', last')
          ELSE FiledBeforeParen(line, line', last')]_vars

\* C10 as amended: standalone only when no token precedes the paren (the
\* line has fewer than two leaves); otherwise filed under the token before
\* the paren, never under the paren.
C10_RedirectedComment ==
    [][MeetsInvisibleParen(line, last')
       => IF Len(line.leaves) < 2
          THEN MadeStandalone(line, line', last')
          ELSE FiledBeforeParen(line, line', last')]_vars

\* one token before the paren: the comment is filed under it
C10_Witness ==
    /\ last.op = "append"
    /\ last.leaf.type = "COMMENT"
    /\ last.leaf.value = "# c"
    /\ Len(line.leaves) = 2
    /\ line.leaves[2].type = "RPAR" /\ line.leaves[2].value = ""
    /\ line.leaves[2].parent_leaves = 3
    /\ last.leaf.id \in AttachedIds(line.comments)
    /\ Len(line.comments) = 1
    /\ line.comments[1].key = line.leaves[1].id

(***************************************************************************)
(* Line.has_magic_trailing_comma.                                          *)
(***************************************************************************)
\* the line as it stood when its last leaf was appended
Before(ln) == [ln EXCEPT !.leaves = Front(@)]

\* the closing bracket follows a trailing comma
TrailingComma(ln, closing) ==
    /\ closing.type \in CLOSING_BRACKETS
    /\ ln.leaves # <<>>
    /\ Last(ln.leaves).type = "COMMA"

\* the comma-terminated elements directly inside the bracket `closing` ends
Elements(ln, closing) ==
    LET open == CHOOSE i \in 1..Len(ln.leaves) :
                    ln.leaves[i].id = closing.opening_bracket
    IN  Cardinality({i \in (open + 1)..Len(ln.leaves) :
                        /\ ln.leaves[i].type = "COMMA"
                        /\ ln.leaves[i].bracket_depth
                               = ln.leaves[open].bracket_depth + 1})

\* C7: has_magic_trailing_comma(closing) is false unless closing is a
\* closing bracket and the line's last leaf is a comma; given that, it is
\* true for '}', false for the ']' of a one-element subscript [x,], true for
\* a two-element [x, y,], and true for any other closing bracket on an
\* import line whatever the number of elements.  With magic trailing commas
\* on, append records the closing bracket exactly when the answer is true.
C7_MagicTrailingComma ==
    line.leaves # <<>> =>
        LET closing == Last(line.leaves)
            before == Before(line)
            magic == has_magic_trailing_comma(before, closing, FALSE)
            trailing == TrailingComma(before, closing)
        IN  /\ lmode.magic_trailing_comma
                => (magic <=> line.magic_trailing_comma = closing.id)
            /\ ~trailing => ~magic
            /\ trailing /\ closing.type = "RBRACE" => magic
            /\ (/\ trailing
                /\ closing.type = "RSQB"
                /\ closing.parent = "trailer"
                /\ Elements(before, closing) = 1) => ~magic
            /\ (/\ trailing
                /\ closing.type = "RSQB"
                /\ Elements(before, closing) = 2) => magic
            /\ (/\ trailing
                /\ closing.type \notin {"RBRACE", "RSQB"}
                /\ line_is_import(before)) => magic

\* x[x,] has been built: nothing is recorded for its closing bracket
C7_Witness ==
    /\ lmode.magic_trailing_comma
    /\ last.op = "append"
    /\ last.leaf.type = "RSQB"
    /\ Last(line.leaves).parent = "trailer"
    /\ TrailingComma(Before(line), Last(line.leaves))
    /\ Elements(Before(line), Last(line.leaves)) = 1
    /\ line.leaves[1].type = "NAME"
    /\ line.magic_trailing_comma = 0

(***************************************************************************)
(* can_be_split.                                                           *)
(***************************************************************************)
Types(leaves) == [i \in 1..Len(leaves) |-> leaves[i].type]

\* "x".foo(a, b)
StringMethodCall(leaves) ==
    Types(leaves) = <<"STRING", "DOT", "NAME", "LPAR",
                      "NAME", "COMMA", "NAME", "RPAR">>

\* C9: can_be_split is false for every line of fewer than two tokens, and
\* true for a string literal followed by one method call with arguments,
\* such as "x".foo(a, b).
C9_CanBeSplit ==
    last.op = "can_be_split" =>
        /\ Len(line.leaves) < 2 => ~last.result
        /\ StringMethodCall(line.leaves) => last.result

\* "x".foo(a, b) has been asked about, and the answer was false
C9_Witness ==
    /\ last.op = "can_be_split"
    /\ StringMethodCall(line.leaves)
    /\ ~last.result

(***************************************************************************)
(* can_omit_invisible_parens.                                              *)
(***************************************************************************)
\* C8: can_omit_invisible_parens is true whenever the body has no
\* delimiters and false whenever the body has more than one delimiter at
\* its maximum priority, whatever the line length, the body's tokens and
\* the head.
C8_OmitInvisibleParens ==
    (last.op = "can_omit_invisible_parens" /\ ~last.raised) =>
        LET bt == line.bracket_tracker IN
        /\ bt.delimiters = {} => last.result
        /\ (/\ bt.delimiters # {}
            /\ delimiter_count_with_priority(
                   bt, max_delimiter_priority(bt)) > 1) => ~last.result

\* a body that starts with a bracket, holds two delimiters of one priority
\* and would fit has been asked about, and the answer was false
C8_Witness ==
    /\ last.op = "can_omit_invisible_parens"
    /\ line.leaves # <<>>
    /\ line.leaves[1].type = "LPAR"
    /\ Cardinality(line.bracket_tracker.delimiters) = 2
    /\ max_delimiter_priority(line.bracket_tracker) = ARITH_PRIORITY
    /\ delimiter_count_with_priority(line.bracket_tracker,
                                     ARITH_PRIORITY) = 2
    /\ last.arg.line_length = 88
    /\ ~last.result

(***************************************************************************)
(* is_line_short_enough.                                                   *)
(***************************************************************************)
\* the text whose width is_line_short_enough measures
Rendered(ln, m) ==
    IF m.use_tabs THEN strip_newlines(_str_inner(ln, TRUE))
    ELSE line_to_string(ln)

\* the line's text ends in a pragma comment
EndsInPragma(ln) ==
    LET all == comments_chain(ln.comments) IN
    all # <<>> /\ pragma_part(Last(all)) > 0

\* the length of that comment from its pragma marker on, the spaces before
\* the marker included
PragmaSuffix(ln) == pragma_part(Last(comments_chain(ln.comments)))

\* C6: for a line with no standalone comments and no embedded newline, a
\* text of exactly line_length characters with no trailing pragma is short
\* enough and one of line_length + 1 characters is not; with
\* wrap_pragma_comments off a line ending in a pragma comment is short
\* enough whenever its width minus the pragma suffix is at most
\* line_length; with wrap_pragma_comments on the full width decides.
C6_ShortEnough ==
    (/\ last.op = "is_line_short_enough"
     /\ ~contains_standalone_comments(line)
     /\ ~HasNewline(Rendered(line, lmode))) =>
        LET text == Rendered(line, lmode)
            pragma == pragma_match_start(text) # 0
        IN  /\ (~pragma /\ Len(text) = lmode.line_length) => last.result
            /\ (~pragma /\ Len(text) = lmode.line_length + 1)
                   => ~last.result
            /\ (/\ ~lmode.wrap_pragma_comments
                /\ EndsInPragma(line)
                /\ Len(text) - PragmaSuffix(line) <= lmode.line_length)
                   => last.result
            /\ lmode.wrap_pragma_comments
                   => (last.result <=> Len(text) <= lmode.line_length)

\* a line whose text ends in a pragma comment and fits once the pragma is
\* taken off has been asked about with wrap_pragma_comments off, and the
\* answer was false
C6_Witness ==
    /\ last.op = "is_line_short_enough"
    /\ ~lmode.wrap_pragma_comments
    /\ ~contains_standalone_comments(line)
    /\ ~HasNewline(Rendered(line, lmode))
    /\ EndsInPragma(line)
    /\ Len(Rendered(line, lmode)) - PragmaSuffix(line) <= lmode.line_length
    /\ ~last.result

(***************************************************************************)
(* Comments appended while a bracket is open.                              *)
(***************************************************************************)
LeafIds(leaves) == {leaves[i].id : i \in 1..Len(leaves)}

\* the call just made appended a comment token to a line with an open
\* bracket
CommentInBrackets(ln, call) ==
    /\ Appended(call)
    /\ call.leaf.type \in {"COMMENT", "STANDALONE_COMMENT"}
    /\ any_open_brackets(ln.bracket_tracker)

\* C11, as stated: a comment token appended while any bracket is open is
\* afterwards neither a leaf of the line nor attached in the comment map.
C11_Original ==
    [][CommentInBrackets(line, last')
       => /\ last'.leaf.id \notin LeafIds(line'.leaves)
          /\ last'.leaf.id \notin AttachedIds(line'.comments)]_vars

\* C11, amended: while a bracket is open, a standalone comment given to
\* append gets its prefix cleared, is not attached and becomes the last
\* leaf; an inline comment stays an inline comment, is attached in the
\* comment map and is no leaf.
C11_CommentInBrackets ==
    [][CommentInBrackets(line, last')
       => IF last'.leaf.type = "STANDALONE_COMMENT"
          THEN /\ Len(line'.leaves) = Len(line.leaves) + 1
               /\ Last(line'.leaves).id = last'.leaf.id
               /\ Last(line'.leaves).type = "STANDALONE_COMMENT"
               /\ Last(line'.leaves).prefix = ""
               /\ line'.comments = line.comments
          ELSE /\ line'.leaves = line.leaves
               /\ last'.leaf.id \in AttachedIds(line'.comments)
               /\ \A i \in 1..Len(line'.comments) :
                     \A j \in 1..Len(line'.comments[i].list) :
                        line'.comments[i].list[j].id = last'.leaf.id
                           => line'.comments[i].list[j].type = "COMMENT"]_vars

\* a standalone comment that came with a prefix is a leaf after an open
\* bracket, and an inline comment is attached inside that bracket
C11_Witness ==
    /\ any_open_brackets(line.bracket_tracker)
    /\ Last(line.leaves).type = "STANDALONE_COMMENT"
    /\ last.op = "append"
    /\ last.leaf.id = Last(line.leaves).id
    /\ last.leaf.prefix # ""
    /\ \E i \in 1..Len(line.comments) :
          line.comments[i].list[1].type = "COMMENT"

(***************************************************************************)
(* The first block of a tracker.                                           *)
(***************************************************************************)
\* C12: the block returned by the first maybe_empty_lines call has
\* before = 0 and after = 0, whatever the line, the mode and the newlines
\* its first token's prefix held; no later call changes that.
C12_FirstBlock ==
    Len(tracker.blocks) >= 1 =>
        /\ tracker.blocks[1].before = 0
        /\ tracker.blocks[1].after = 0

\* a stub-mode tracker has been given a class as its first line, with
\* newlines before it
C12_Witness ==
    /\ Len(fed) = 1
    /\ Len(tracker.blocks) = 1
    /\ mode.is_pyi
    /\ is_class(fed[1])
    /\ fed[1].nl = MaxNewlines

(***************************************************************************)
(* Blank lines hoisted onto the comment before a definition.               *)
(***************************************************************************)
\* `before` as _maybe_empty_lines hands it to the class/def procedure
ComputedBefore(m, tr, current_line) ==
    pop_previous_defs(m, tr.previous_defs, tr.previous_line, current_line,
                      consume_before(m, current_line)).before

\* a decorator, def or class follows a comment line of its depth with
\* computed before = 0, and the tracked comment block can take the lines
HoistCase(m, tr, current_line) ==
    /\ is_decorator(current_line) \/ is_def(current_line)
          \/ is_class(current_line)
    /\ tr.previous_line # NoLine
    /\ is_comment(tr.previous_line)
    /\ tr.previous_line.depth = current_line.depth
    /\ ComputedBefore(m, tr, current_line) = 0
    /\ tr.semantic_leading_comment # 0
    /\ LET slc == tr.blocks[tr.semantic_leading_comment] IN
       /\ slc.previous_block # 0
       /\ ~is_class(tr.blocks[slc.previous_block].original_line)
       /\ ~opens_block(tr.blocks[slc.previous_block].original_line)
       /\ slc.before <= 1

\* the blank lines the definition asks for
WantedNewlines(m, tr, current_line) ==
    IF m.is_pyi THEN stub_newlines(tr.previous_line, current_line, 0)
    ELSE IF current_line.depth > 0 THEN 1 ELSE 2

\* C13: in the hoist case the comment block's before becomes
\* max(its before, newlines) minus the after of its predecessor block, the
\* current line's block gets before = 0, and no other block returned
\* earlier has its before or after changed.
C13_Hoist ==
    [][(Len(fed') = Len(fed) + 1 /\ HoistCase(mode, tracker, Last(fed')))
       => LET t == tracker.semantic_leading_comment
              pb == tracker.blocks[t].previous_block
              n == Len(tracker.blocks)
          IN  /\ Len(tracker'.blocks) = n + 1
              /\ tracker'.blocks[t].before =
                     Max(tracker.blocks[t].before,
                         WantedNewlines(mode, tracker, Last(fed')))
                     - tracker.blocks[pb].after
              /\ tracker'.blocks[t].after = tracker.blocks[t].after
              /\ tracker'.blocks[n + 1].before = 0
              /\ \A i \in 1..n :
                    i # t => tracker'.blocks[i] = tracker.blocks[i]]_vars

\* a def in a class body took its blank line from the comment before it,
\* whose predecessor, the docstring, has after = 1
C13_Witness ==
    /\ Len(fed) = 4
    /\ is_class(fed[1])
    /\ is_triple_quoted_string(fed[2])
    /\ is_comment(fed[3])
    /\ is_def(fed[4])
    /\ fed[4].depth = 1
    /\ tracker.blocks[2].after = 1
    /\ tracker.blocks[3].before = 0
    /\ tracker.blocks[4].before = 0
    /\ ~mode.is_pyi

(***************************************************************************)
(* The tracked semantic leading comment.                                   *)
(***************************************************************************)
\* C14: after every maybe_empty_lines call the tracked semantic leading
\* comment is absent or a block returned so far whose line is a standalone
\* comment, and every line processed since is a comment or a decorator
\* whose block got before = 0.
C14_LeadingComment ==
    LET t == tracker.semantic_leading_comment
        n == Len(tracker.blocks)
    IN  t # 0 =>
           /\ t \in 1..n
           /\ is_comment(tracker.blocks[t].original_line)
           /\ \A i \in (t + 1)..n :
                 LET ln == tracker.blocks[i].original_line IN
                 /\ is_comment(ln) \/ is_decorator(ln)
                 /\ is_decorator(ln) => tracker.blocks[i].before = 0

\* a comment is still tracked after a decorator and a further comment
C14_Witness ==
    /\ Len(fed) = 4
    /\ tracker.semantic_leading_comment = 2
    /\ is_decorator(fed[3])
    /\ is_comment(fed[4])

(***************************************************************************)
(* contains_uncollapsable_type_comments.                                   *)
(***************************************************************************)
\* the last token, and the token before it when the last is a trailing
\* comma or an invisible closing paren
Ignorable(ln) ==
    {Last(ln.leaves).id}
        \cup IF /\ Len(ln.leaves) >= 2
                /\ \/ Last(ln.leaves).type = "COMMA"
                   \/ Last(ln.leaves).type = "RPAR"
                      /\ Last(ln.leaves).value = ""
             THEN {ln.leaves[Len(ln.leaves) - 1].id}
             ELSE {}

IsTypeComment(c) == startswith(c.value, "# type:")
IsTypeIgnore(c) == startswith(c.value, "# type: ignore")

C15_WitnessSingleLeaf ==
    /\ last.op = "contains_uncollapsable_type_comments"
    /\ lmode.wrap_pragma_comments
    /\ Len(line.leaves) = 1
    /\ Len(comments_items(line.comments)) = 2
    /\ IsTypeComment(comments_items(line.comments)[2].comment)
    /\ ~last.result

(***************************************************************************)
(* trailing_pragma_comment_length.                                         *)
(***************************************************************************)
PragmaMarkers == {"# pylint:", "# pytype:", "# noqa:", "# type:"}

\* the marker m stands at position h of the text
MarkerAt(text, h, m) ==
    /\ startswith(SubSeq(text, h, Len(text)), m)
    /\ m = "# type:" =>
          \E sp \in {"", " ", "  "} :
             startswith(SubSeq(text, h, Len(text)), m \o sp \o "ignore")

\* where the first marker of the text starts and ends (0, 0: no marker)
FirstMarker(text) ==
    LET at == {hm \in (1..Len(text)) \X PragmaMarkers :
                  MarkerAt(text, hm[1], hm[2])}
    IN  IF at = {} THEN <<0, 0>>
        ELSE LET hm == CHOOSE x \in at : \A y \in at : x[1] <= y[1]
             IN  <<hm[1], hm[1] + Len(hm[2]) - 1>>

\* the spaces that stand right before position h of the text
SpacesBefore(text, h) ==
    Cardinality({p \in 1..(h - 1) :
                    \A q \in p..(h - 1) : SubSeq(text, q, q) = " "})

RECURSIVE SeqSum(_)
SeqSum(ns) == IF ns = <<>> THEN 0 ELSE Head(ns) + SeqSum(Tail(ns))

\* the comments attached to the last token of the line, as rendered
LastLeafComments(ln) ==
    IF ln.leaves = <<>> THEN <<>>
    ELSE LET cs == SelectSeq(comments_items(ln.comments),
                             LAMBDA it : it.key = Last(ln.leaves).id)
         IN  [k \in 1..Len(cs) |-> cs[k].comment.prefix
                                      \o cs[k].comment.value]

\* C16, as stated: the result is 0 with wrap_pragma_comments on; with it
\* off, it is the sum over the comments of the last token of the length of
\* the text after the pragma marker, 0 for a comment without a marker.
C16_Original ==
    last.op = "trailing_pragma_comment_length" =>
        last.result =
            IF lmode.wrap_pragma_comments THEN 0
            ELSE LET cs == LastLeafComments(line) IN
                 SeqSum([k \in 1..Len(cs) |->
                            IF FirstMarker(cs[k])[1] = 0 THEN 0
                            ELSE Len(cs[k]) - FirstMarker(cs[k])[2]])

\* C16, amended: whatever wrap_pragma_comments is, the result is the sum
\* over the comments of the last token of the length of the rendered
\* comment from the spaces before its first pragma marker to its end, the
\* marker included, 0 for a comment without a marker.
C16_PragmaLength ==
    last.op = "trailing_pragma_comment_length" =>
        last.result =
            LET cs == LastLeafComments(line) IN
            SeqSum([k \in 1..Len(cs) |->
                       IF FirstMarker(cs[k])[1] = 0 THEN 0
                       ELSE Len(cs[k]) - FirstMarker(cs[k])[1] + 1
                            + SpacesBefore(cs[k], FirstMarker(cs[k])[1])])

\* with wrap_pragma_comments on, the last token carries a pragma comment
\* after a plain one and the length of the whole pragma comment is returned
C16_Witness ==
    /\ last.op = "trailing_pragma_comment_length"
    /\ lmode.wrap_pragma_comments
    /\ LastLeafComments(line) = <<"  # c", "  # noqa: E501">>
    /\ last.result = 14

(***************************************************************************)
(* The order of the comment map.                                           *)
(***************************************************************************)
\* where the token with this id stands in the leaf sequence (0: nowhere)
LeafPos(ln, id) ==
    LET at == {i \in 1..Len(ln.leaves) : ln.leaves[i].id = id}
    IN  IF at = {} THEN 0 ELSE CHOOSE i \in at : TRUE

C17_WitnessRemoval ==
    /\ ~lmode.magic_trailing_comma
    /\ Len(line.comments) = 2
    /\ Len(line.leaves) = 3
    /\ line.leaves[3].type = "RBRACE"
    /\ LeafPos(line, line.comments[1].key) = 1
    /\ LeafPos(line, line.comments[2].key) = 2
    /\ last.op = "append"
    /\ last.leaf.type = "RBRACE"
    /\ next_id = 6

AllComments(ln) == comments_items(ln.comments)

\* the closing bracket of this step follows a trailing comma that
\* has_magic_trailing_comma reports
ClosesAfterComma(ensure_removable) ==
    /\ last'.op = "append"
    /\ last'.leaf.type \in CLOSING_BRACKETS
    /\ line.leaves # <<>>
    /\ Last(line.leaves).type = "COMMA"
    /\ Last(line'.leaves).id = last'.leaf.id
    /\ has_magic_trailing_comma(line, Last(line'.leaves), ensure_removable)

\* C18: with magic-trailing-comma mode on, the closing bracket that meets a
\* magic trailing comma is recorded and the leaves only grow by it; with
\* the mode off, nothing is ever recorded, the removable trailing comma is
\* gone from the leaves when the bracket is added, and its comments stand,
\* in their order, after the comments of the new last leaf, no comment lost.
C18_TrailingCommaAtBracket ==
    [][/\ ~lmode.magic_trailing_comma => line'.magic_trailing_comma = 0
       /\ (lmode.magic_trailing_comma /\ ClosesAfterComma(FALSE)) =>
             /\ line'.magic_trailing_comma = last'.leaf.id
             /\ Front(line'.leaves) = line.leaves
             /\ line'.comments = line.comments
       /\ (~lmode.magic_trailing_comma /\ ClosesAfterComma(TRUE)) =>
             LET comma == Last(line.leaves)
                 kept == Front(line.leaves)
             IN  /\ Front(line'.leaves) = kept
                 /\ comments_get(line'.comments, comma.id) = <<>>
                 /\ comments_get(line'.comments, Last(kept).id)
                       = comments_get(line.comments, Last(kept).id)
                            \o comments_get(line.comments, comma.id)
                 /\ \A k \in 1..(Len(kept) - 1) :
                       comments_get(line'.comments, kept[k].id)
                          = comments_get(line.comments, kept[k].id)
                 /\ Len(AllComments(line')) = Len(AllComments(line))
      ]_vars

\* with the mode off, a closing brace has replaced a trailing comma that
\* carried a comment, and the token before it carries its own and the
\* comma's
C18_Witness ==
    /\ ~lmode.magic_trailing_comma
    /\ last.op = "append"
    /\ last.leaf.type = "RBRACE"
    /\ Len(line.leaves) = 3
    /\ line.leaves[2].type = "NAME"
    /\ Len(comments_get(line.comments, line.leaves[2].id)) = 2
    /\ comments_get(line.comments, line.leaves[2].id)[1].id = 3
    /\ comments_get(line.comments, line.leaves[2].id)[2].id = 5

(***************************************************************************)
(* The stack of definitions.                                               *)
(***************************************************************************)
\* C19: after every maybe_empty_lines call the stack holds only def and
\* class lines, deeper and deeper from bottom to top, and every entry
\* other than the line just fed is less deep than that line.
C19_DefinitionStack ==
    fed # <<>> =>
        LET defs == tracker.previous_defs
            current_line == tracker.previous_line
        IN  /\ \A i \in 1..Len(defs) : defs[i].first \in {"DEF", "CLASS"}
            /\ \A i, j \in 1..Len(defs) :
                  i < j => defs[i].depth < defs[j].depth
            /\ \A i \in 1..Len(defs) :
                  \/ defs[i].depth < current_line.depth
                  \/ /\ i = Len(defs)
                     /\ current_line.first \in {"DEF", "CLASS"}
                     /\ defs[i] = current_line

\* a class, a def in it and a second def as deep as the first: the second
\* def took the first one's place on the stack
C19_Witness ==
    /\ Len(fed) = 3
    /\ fed[1].first = "CLASS"
    /\ fed[2].first = "DEF"
    /\ fed[3].first = "DEF"
    /\ fed[2].depth = 1
    /\ fed[3].depth = 1
    /\ fed[2].tail # fed[3].tail
    /\ Len(tracker.previous_defs) = 2
    /\ tracker.previous_defs[1].first = "CLASS"
    /\ tracker.previous_defs[2] = tracker.previous_line

(***************************************************************************)
(* The sign of the blank-line counts.                                      *)
(***************************************************************************)
\* C20: every block has before >= 0 and after >= 0, in stub and non-stub
\* mode, also after a later call hoisted blank lines onto it.
C20_NonNegative ==
    \A i \in 1..Len(tracker.blocks) :
        /\ tracker.blocks[i].before >= 0
        /\ tracker.blocks[i].after >= 0

\* a class, its docstring and a statement with no blank line before it:
\* the block of the statement has before = -1
C20_Witness ==
    /\ ~mode.is_pyi
    /\ Len(fed) = 3
    /\ fed[1].first = "CLASS" /\ fed[1].tail = "colon"
    /\ fed[2].first = "STRING3" /\ fed[2].depth = 1
    /\ fed[3].first = "OTHER" /\ fed[3].depth = 1 /\ fed[3].nl = 0
    /\ tracker.blocks[2].after = 1
    /\ tracker.blocks[3].before = -1

\* in stub mode a comment right after the docstring has before = -1 and
\* keeps it when the def after it hoists its blank lines onto the comment
C20_WitnessHoisted ==
    /\ mode.is_pyi
    /\ Len(fed) = 4
    /\ fed[2].first = "STRING3"
    /\ fed[3].first = "COMMENT"
    /\ fed[4].first = "DEF"
    /\ HoistCase(mode, RunTracker(mode, NewTracker, SubSeq(fed, 1, 3)), fed[4])
    /\ tracker.blocks[3].before = -1

(***************************************************************************)
(* The keys of the comment map and the leaves of the line.                 *)
(***************************************************************************)
\* C21: every key of the comment map is the identity of a token that is
\* in the leaf sequence, also after the empty parentheses of a class header
\* were removed at its colon.
C21_KeysAreLeaves ==
    \A i \in 1..Len(line.comments) :
        \E k \in 1..Len(line.leaves) :
            line.leaves[k].id = line.comments[i].key

\* "class A(  # c" then ")" and ":": the parentheses are gone from the
\* leaves and the comment is still filed under the opening one
C21_Witness ==
    /\ last.op = "append"
    /\ last.leaf.type = "COLON"
    /\ Len(line.leaves) = 3
    /\ line.leaves[1].value = "class"
    /\ line.leaves[3].type = "COLON"
    /\ Len(line.comments) = 1
    /\ line.comments[1].key = 3
    /\ line.comments[1].list # <<>>
    /\ \A k \in 1..3 : line.leaves[k].id # 3

=============================================================================
